---- MODULE Spec2Model ----
(***************************************************************************)
(* Language-item registry of librustc (middle/lang_items.rs).              *)
(*                                                                         *)
(* Two specifications share the variables below.                           *)
(*   Spec     collect_language_items: LanguageItemCollector::new, the      *)
(*            local pass over the crate (one visit_item per step, items in *)
(*            the pre-order walk_crate visits them), the external pass     *)
(*            (one dependency crate per step, in any order), and           *)
(*            session.abort_if_errors.                                     *)
(*   SpecAPI  the methods called directly on a constructed collector:      *)
(*            collect_item with the (slot, identity) pairs of Decls in any *)
(*            sequence, require and to_builtin_kind on the table reached.  *)
(***************************************************************************)
EXTENDS Integers, Sequences, FiniteSets, TLC

VARIABLES pc, crate, cstore, item_refs, items, errs, pos, done, calls, result

vars == <<pc, crate, cstore, item_refs, items, errs, pos, done, calls, result>>

(* ------------------------------------------------------------------ *)
(* Option<T>                                                           *)
(* ------------------------------------------------------------------ *)
None == <<>>

Some(x) == <<x>>

(* ------------------------------------------------------------------ *)
(* Bounds of the model                                                 *)
(* ------------------------------------------------------------------ *)
\* items in the crate being compiled
MaxItems == 2

\* statically linked dependency crates in the crate store
NumCrates == 2

\* direct collect_item calls in SpecAPI
MaxCalls == 3

(* ------------------------------------------------------------------ *)
(* Item catalog                                                        *)
(* ------------------------------------------------------------------ *)
\* enum LangItem, in declaration order
LangItem ==
    << "FreezeTraitLangItem", "SendTraitLangItem", "SizedTraitLangItem",
       "DropTraitLangItem",
       "AddTraitLangItem", "SubTraitLangItem", "MulTraitLangItem",
       "DivTraitLangItem", "RemTraitLangItem", "NegTraitLangItem",
       "NotTraitLangItem", "BitXorTraitLangItem", "BitAndTraitLangItem",
       "BitOrTraitLangItem", "ShlTraitLangItem", "ShrTraitLangItem",
       "IndexTraitLangItem",
       "EqTraitLangItem", "OrdTraitLangItem",
       "StrEqFnLangItem", "UniqStrEqFnLangItem", "FailFnLangItem",
       "FailBoundsCheckFnLangItem", "ExchangeMallocFnLangItem",
       "ClosureExchangeMallocFnLangItem", "ExchangeFreeFnLangItem",
       "MallocFnLangItem", "FreeFnLangItem", "BorrowAsImmFnLangItem",
       "BorrowAsMutFnLangItem", "ReturnToMutFnLangItem",
       "CheckNotBorrowedFnLangItem", "StrDupUniqFnLangItem",
       "RecordBorrowFnLangItem", "UnrecordBorrowFnLangItem",
       "StartFnLangItem",
       "TyDescStructLangItem", "TyVisitorTraitLangItem",
       "OpaqueStructLangItem",
       "EventLoopFactoryLangItem" >>

\* the variants of the enum
LangItems == { LangItem[i] : i \in 1..Len(LangItem) }

\* `it as uint`: a C-like enum's discriminants count up from 0
AsUint(it) == (CHOOSE i \in 1..Len(LangItem) : LangItem[i] = it) - 1

\* items: [Option<ast::DefId>, ..40]
NumSlots == 40

Slots == 0..(NumSlots - 1)

\* LanguageItems::new
LanguageItems_new == [s \in Slots |-> None]

\* LanguageItems::item_name
item_name(index) ==
    CASE index = 0  -> "freeze"
      [] index = 1  -> "send"
      [] index = 2  -> "sized"
      [] index = 3  -> "drop"
      [] index = 4  -> "add"
      [] index = 5  -> "sub"
      [] index = 6  -> "mul"
      [] index = 7  -> "div"
      [] index = 8  -> "rem"
      [] index = 9  -> "neg"
      [] index = 10 -> "not"
      [] index = 11 -> "bitxor"
      [] index = 12 -> "bitand"
      [] index = 13 -> "bitor"
      [] index = 14 -> "shl"
      [] index = 15 -> "shr"
      [] index = 16 -> "index"
      [] index = 17 -> "eq"
      [] index = 18 -> "ord"
      [] index = 19 -> "str_eq"
      [] index = 20 -> "uniq_str_eq"
      [] index = 21 -> "fail_"
      [] index = 22 -> "fail_bounds_check"
      [] index = 23 -> "exchange_malloc"
      [] index = 24 -> "closure_exchange_malloc"
      [] index = 25 -> "exchange_free"
      [] index = 26 -> "malloc"
      [] index = 27 -> "free"
      [] index = 28 -> "borrow_as_imm"
      [] index = 29 -> "borrow_as_mut"
      [] index = 30 -> "return_to_mut"
      [] index = 31 -> "check_not_borrowed"
      [] index = 32 -> "strdup_uniq"
      [] index = 33 -> "record_borrow"
      [] index = 34 -> "unrecord_borrow"
      [] index = 35 -> "start"
      [] index = 36 -> "ty_desc"
      [] index = 37 -> "ty_visitor"
      [] index = 38 -> "opaque"
      [] index = 39 -> "event_loop_factory"
      [] OTHER      -> "???"

(* ------------------------------------------------------------------ *)
(* Name index                                                          *)
(* ------------------------------------------------------------------ *)
\* HashMap::new
HashMap_new == [k \in {} |-> 0]

\* HashMap::insert: a later insert of an equal key replaces the value
insert(m, k, v) == [x \in DOMAIN m \cup {k} |-> IF x = k THEN v ELSE m[x]]

\* HashMap::find_equiv(..).map(|x| *x)
find_equiv(m, k) == IF k \in DOMAIN m THEN Some(m[k]) ELSE None

\* the item_refs.insert calls of LanguageItemCollector::new, in order
Inserts ==
    << <<"freeze", "FreezeTraitLangItem">>,
       <<"send", "SendTraitLangItem">>,
       <<"sized", "SizedTraitLangItem">>,
       <<"drop", "DropTraitLangItem">>,
       <<"add", "AddTraitLangItem">>,
       <<"sub", "SubTraitLangItem">>,
       <<"mul", "MulTraitLangItem">>,
       <<"div", "DivTraitLangItem">>,
       <<"rem", "RemTraitLangItem">>,
       <<"neg", "NegTraitLangItem">>,
       <<"not", "NotTraitLangItem">>,
       <<"bitxor", "BitXorTraitLangItem">>,
       <<"bitand", "BitAndTraitLangItem">>,
       <<"bitor", "BitOrTraitLangItem">>,
       <<"shl", "ShlTraitLangItem">>,
       <<"shr", "ShrTraitLangItem">>,
       <<"index", "IndexTraitLangItem">>,
       <<"eq", "EqTraitLangItem">>,
       <<"ord", "OrdTraitLangItem">>,
       <<"str_eq", "StrEqFnLangItem">>,
       <<"uniq_str_eq", "UniqStrEqFnLangItem">>,
       <<"fail_", "FailFnLangItem">>,
       <<"fail_bounds_check", "FailBoundsCheckFnLangItem">>,
       <<"exchange_malloc", "ExchangeMallocFnLangItem">>,
       <<"closure_exchange_malloc", "ClosureExchangeMallocFnLangItem">>,
       <<"exchange_free", "ExchangeFreeFnLangItem">>,
       <<"malloc", "MallocFnLangItem">>,
       <<"free", "FreeFnLangItem">>,
       <<"borrow_as_imm", "BorrowAsImmFnLangItem">>,
       <<"borrow_as_mut", "BorrowAsMutFnLangItem">>,
       <<"return_to_mut", "ReturnToMutFnLangItem">>,
       <<"check_not_borrowed", "CheckNotBorrowedFnLangItem">>,
       <<"strdup_uniq", "StrDupUniqFnLangItem">>,
       <<"record_borrow", "RecordBorrowFnLangItem">>,
       <<"unrecord_borrow", "UnrecordBorrowFnLangItem">>,
       <<"start", "StartFnLangItem">>,
       <<"ty_desc", "TyDescStructLangItem">>,
       <<"ty_visitor", "TyVisitorTraitLangItem">>,
       <<"opaque", "OpaqueStructLangItem">>,
       <<"event_loop_factory", "EventLoopFactoryLangItem">> >>

RECURSIVE InsertAll(_, _, _)
\* the map after the first n inserts of ins into m
InsertAll(m, ins, n) ==
    IF n = 0 THEN m
    ELSE insert(InsertAll(m, ins, n - 1), ins[n][1], AsUint(ins[n][2]))

\* faulty variant of new_item_refs: the insert of the newest item is missing
new_item_refs_stale == InsertAll(HashMap_new, Inserts, Len(Inserts) - 1)

\* the item_refs LanguageItemCollector::new builds
new_item_refs == InsertAll(HashMap_new, Inserts, Len(Inserts))

(* ------------------------------------------------------------------ *)
(* Definition identities, attributes, the session                      *)
(* ------------------------------------------------------------------ *)
\* ast::DefId { crate, node }
DefId(c, n) == [crate |-> c, node |-> n]

\* ast_util::local_def: the crate being compiled is crate 0
local_def(id) == DefId(0, id)

\* a `#[name = "value"]` attribute
NameValue(k, v) == [name |-> k, value |-> Some(v)]

\* a `#[name]` attribute, which has no string value
Word(k) == [name |-> k, value |-> None]

\* AttrMetaMethods::name_str_pair
name_str_pair(attribute) ==
    IF attribute.value # None
    THEN Some(<<attribute.name, attribute.value[1]>>)
    ELSE None

\* Session::err records the message and returns
session_err(es, msg) == Append(es, msg)

\* Session::abort_if_errors aborts when an error was recorded
abort_if_errors(es) == Len(es) > 0

(* ------------------------------------------------------------------ *)
(* Registry table                                                      *)
(* ------------------------------------------------------------------ *)
\* Result<ast::DefId, ~str>
Ok(x) == [ok |-> TRUE, val |-> x]

Err(msg) == [ok |-> FALSE, val |-> msg]

\* faulty variant of require: the message names the following slot
require_next_name(its, it) ==
    IF its[AsUint(it)] # None
    THEN Ok(its[AsUint(it)][1])
    ELSE Err("requires '" \o item_name(AsUint(it) + 1) \o "' lang_item")

\* LanguageItems::require; the backquotes of the message are written as
\* apostrophes
require(its, it) ==
    IF its[AsUint(it)] # None
    THEN Ok(its[AsUint(it)][1])
    ELSE Err("requires '" \o item_name(AsUint(it)) \o "' lang_item")

\* LanguageItems::freeze_trait
freeze_trait(its) == its[AsUint("FreezeTraitLangItem")]

\* LanguageItems::send_trait
send_trait(its) == its[AsUint("SendTraitLangItem")]

\* LanguageItems::sized_trait
sized_trait(its) == its[AsUint("SizedTraitLangItem")]

\* faulty variant of to_builtin_kind: the send and sized answers are swapped
to_builtin_kind_swapped(its, id) ==
    IF Some(id) = freeze_trait(its) THEN Some("BoundFreeze")
    ELSE IF Some(id) = send_trait(its) THEN Some("BoundSized")
    ELSE IF Some(id) = sized_trait(its) THEN Some("BoundSend")
    ELSE None

\* LanguageItems::to_builtin_kind
to_builtin_kind(its, id) ==
    IF Some(id) = freeze_trait(its) THEN Some("BoundFreeze")
    ELSE IF Some(id) = send_trait(its) THEN Some("BoundSend")
    ELSE IF Some(id) = sized_trait(its) THEN Some("BoundSized")
    ELSE None

(* ------------------------------------------------------------------ *)
(* Collector                                                           *)
(* ------------------------------------------------------------------ *)
\* faulty variant of collect_item: a conflicting call keeps the slot
collect_item_keep_first(its, es, item_index, item_def_id) ==
    IF its[item_index] # None /\ its[item_index][1] # item_def_id
    THEN [ items |-> its,
           errs  |-> session_err(es, "duplicate entry for '"
                                     \o item_name(item_index) \o "'") ]
    ELSE [ items |-> [its EXCEPT ![item_index] = Some(item_def_id)],
           errs  |-> es ]

\* faulty variant of collect_item: identities are compared by node only
collect_item_node_only(its, es, item_index, item_def_id) ==
    [ items |-> [its EXCEPT ![item_index] = Some(item_def_id)],
      errs  |-> IF its[item_index] # None
                   /\ its[item_index][1].node # item_def_id.node
                THEN session_err(es, "duplicate entry for '"
                                     \o item_name(item_index) \o "'")
                ELSE es ]

\* faulty variant of collect_item: every call on a filled slot is a conflict
collect_item_no_guard(its, es, item_index, item_def_id) ==
    [ items |-> [its EXCEPT ![item_index] = Some(item_def_id)],
      errs  |-> IF its[item_index] # None
                THEN session_err(es, "duplicate entry for '"
                                     \o item_name(item_index) \o "'")
                ELSE es ]

\* LanguageItemCollector::collect_item on the table its and the session's
\* recorded errors es
collect_item(its, es, item_index, item_def_id) ==
    [ items |-> [its EXCEPT ![item_index] = Some(item_def_id)],
      errs  |-> IF its[item_index] # None /\ its[item_index][1] # item_def_id
                THEN session_err(es, "duplicate entry for '"
                                     \o item_name(item_index) \o "'")
                ELSE es ]

RECURSIVE extract_any_key(_, _)
\* faulty variant of extract_from: the key is not compared with "lang"
extract_any_key(attrs, i) ==
    IF i > Len(attrs) THEN None
    ELSE IF name_str_pair(attrs[i]) # None
         THEN Some(name_str_pair(attrs[i])[1][2])
         ELSE extract_any_key(attrs, i + 1)

RECURSIVE extract_from(_, _)
\* the loop of extract, from the i-th attribute on
extract_from(attrs, i) ==
    IF i > Len(attrs) THEN None
    ELSE IF name_str_pair(attrs[i]) # None
            /\ "lang" = name_str_pair(attrs[i])[1][1]
         THEN Some(name_str_pair(attrs[i])[1][2])
         ELSE extract_from(attrs, i + 1)

RECURSIVE extract_last_from(_, _)
\* the last "lang" value among the first i attributes
extract_last_from(attrs, i) ==
    IF i = 0 THEN None
    ELSE IF name_str_pair(attrs[i]) # None
            /\ "lang" = name_str_pair(attrs[i])[1][1]
         THEN Some(name_str_pair(attrs[i])[1][2])
         ELSE extract_last_from(attrs, i - 1)

\* faulty variant of extract: the last "lang" attribute wins
extract_last(attrs) == extract_last_from(attrs, Len(attrs))

\* extract
extract(attrs) == extract_from(attrs, 1)

\* LanguageItemVisitor::visit_item on one item; walk_item's descent into
\* nested items is the next element of the pre-order sequence
visit_item(its, es, refs, item) ==
    IF extract(item.attrs) = None THEN [items |-> its, errs |-> es]
    ELSE IF find_equiv(refs, extract(item.attrs)[1]) = None
         THEN [items |-> its, errs |-> es]
         ELSE collect_item(its, es,
                           find_equiv(refs, extract(item.attrs)[1])[1],
                           local_def(item.id))

RECURSIVE each_lang_item_local(_, _, _, _, _)
\* faulty variant of each_lang_item: the identity gets the local crate number
each_lang_item_local(its, es, crate_number, table, n) ==
    IF n = 0 THEN [items |-> its, errs |-> es]
    ELSE collect_item(each_lang_item_local(its, es, crate_number, table, n - 1).items,
                      each_lang_item_local(its, es, crate_number, table, n - 1).errs,
                      table[n][2],
                      local_def(table[n][1]))

RECURSIVE each_lang_item(_, _, _, _, _)
\* each_lang_item with the closure of collect_external_language_items,
\* over the first n exported (node_id, item_index) pairs of one crate
each_lang_item(its, es, crate_number, table, n) ==
    IF n = 0 THEN [items |-> its, errs |-> es]
    ELSE collect_item(each_lang_item(its, es, crate_number, table, n - 1).items,
                      each_lang_item(its, es, crate_number, table, n - 1).errs,
                      table[n][2],
                      DefId(crate_number, table[n][1]))

(* ------------------------------------------------------------------ *)
(* Inputs                                                              *)
(* ------------------------------------------------------------------ *)
\* attribute lists an item of the crate may carry
ItemAttrs ==
    { <<>>,
      <<NameValue("lang", "add")>>,
      <<NameValue("lang", "not_a_real_item")>>,
      <<Word("lang"), NameValue("doc", "add"), NameValue("lang", "malloc")>>,
      <<NameValue("lang", "not_a_real_item"), NameValue("lang", "add")>>,
      <<NameValue("lang", "add"), NameValue("lang", "malloc")>>,
      <<Word("lang"), NameValue("link_name", "malloc")>> }

\* crates of n items; an item's node id is its position in the walk
CratesOfLen(n) ==
    { [i \in 1..n |-> [id |-> i, attrs |-> a[i]]] : a \in [1..n -> ItemAttrs] }

Crates == UNION { CratesOfLen(n) : n \in 0..MaxItems }

\* language-item tables a dependency exports: (node_id, item_index) pairs
ExtTables ==
    { <<>>,
      << <<1, 4>> >>,
      << <<7, 26>> >>,
      << <<7, 4>>, <<1, 26>> >> }

\* crate numbers of the dependencies
CrateNums == 1..NumCrates

CStores == [CrateNums -> ExtTables]

\* (item_index, identity) pairs for direct collect_item calls; every
\* declaration fills one role
Decls ==
    { <<0, DefId(0, 1)>>, <<0, DefId(1, 1)>>,
      <<1, DefId(0, 2)>>,
      <<2, DefId(1, 7)>>,
      <<4, DefId(0, 3)>>, <<4, DefId(1, 3)>> }

\* identities to_builtin_kind is asked about
QueryIds == { d[2] : d \in Decls } \cup { DefId(2, 9) }

(* ------------------------------------------------------------------ *)
(* collect_language_items                                              *)
(* ------------------------------------------------------------------ *)
Init ==
    /\ pc = "start"
    /\ crate \in Crates
    /\ cstore \in CStores
    /\ item_refs = HashMap_new
    /\ items = LanguageItems_new
    /\ errs = <<>>
    /\ pos = 0
    /\ done = {}
    /\ calls = <<>>
    /\ result = None

\* LanguageItemCollector::new
New ==
    /\ pc = "start"
    /\ pc' = "collecting"
    /\ item_refs' = new_item_refs
    /\ items' = LanguageItems_new
    /\ UNCHANGED <<crate, cstore, errs, pos, done, calls, result>>

\* collect_local_language_items: walk_crate reaches the next item
VisitItem ==
    /\ pc = "collecting"
    /\ pos < Len(crate)
    /\ items' = visit_item(items, errs, item_refs, crate[pos + 1]).items
    /\ errs' = visit_item(items, errs, item_refs, crate[pos + 1]).errs
    /\ pos' = pos + 1
    /\ UNCHANGED <<pc, crate, cstore, item_refs, done, calls, result>>

\* collect_external_language_items: iter_crate_data reaches a crate
ExternalCrate(crate_number) ==
    /\ pc = "collecting"
    /\ pos = Len(crate)
    /\ crate_number \in DOMAIN cstore \ done
    /\ items' = each_lang_item(items, errs, crate_number, cstore[crate_number],
                               Len(cstore[crate_number])).items
    /\ errs' = each_lang_item(items, errs, crate_number, cstore[crate_number],
                              Len(cstore[crate_number])).errs
    /\ done' = done \cup {crate_number}
    /\ UNCHANGED <<pc, crate, cstore, item_refs, pos, calls, result>>

\* faulty variant of Abort: the session aborts on the first recorded error
Abort_eager ==
    /\ pc = "collecting"
    /\ abort_if_errors(errs)
    /\ pc' = "aborted"
    /\ UNCHANGED <<crate, cstore, item_refs, items, errs, pos, done, calls, result>>

\* collect has returned
Collected == pc = "collecting" /\ pos = Len(crate) /\ done = DOMAIN cstore

\* session.abort_if_errors() aborts the compilation
Abort ==
    /\ Collected
    /\ abort_if_errors(errs)
    /\ pc' = "aborted"
    /\ UNCHANGED <<crate, cstore, item_refs, items, errs, pos, done, calls, result>>

\* session.abort_if_errors() returns and the table is handed out
Return ==
    /\ Collected
    /\ ~abort_if_errors(errs)
    /\ pc' = "resolved"
    /\ UNCHANGED <<crate, cstore, item_refs, items, errs, pos, done, calls, result>>

Next ==
    \/ New
    \/ VisitItem
    \/ \E c \in CrateNums : ExternalCrate(c)
    \/ Abort
    \/ Return

Spec == Init /\ [][Next]_vars

(* ------------------------------------------------------------------ *)
(* The methods called directly                                         *)
(* ------------------------------------------------------------------ *)
InitAPI ==
    /\ pc = "api"
    /\ crate = <<>>
    /\ cstore = <<>>
    /\ item_refs = new_item_refs
    /\ items = LanguageItems_new
    /\ errs = <<>>
    /\ pos = 0
    /\ done = {}
    /\ calls = <<>>
    /\ result = None

\* collector.collect_item(item_index, item_def_id)
ApiCollectItem(item_index, item_def_id) ==
    /\ pc = "api"
    /\ Len(calls) < MaxCalls
    /\ items' = collect_item(items, errs, item_index, item_def_id).items
    /\ errs' = collect_item(items, errs, item_index, item_def_id).errs
    /\ calls' = Append(calls, <<item_index, item_def_id>>)
    /\ result' = None
    /\ UNCHANGED <<pc, crate, cstore, item_refs, pos, done>>

\* items.require(it)
ApiRequire(it) ==
    /\ pc = "api"
    /\ result' = Some([op |-> "require", arg |-> it, val |-> require(items, it)])
    /\ UNCHANGED <<pc, crate, cstore, item_refs, items, errs, pos, done, calls>>

\* items.to_builtin_kind(id)
ApiToBuiltinKind(id) ==
    /\ pc = "api"
    /\ result' = Some([op |-> "to_builtin_kind", arg |-> id,
                       val |-> to_builtin_kind(items, id)])
    /\ UNCHANGED <<pc, crate, cstore, item_refs, items, errs, pos, done, calls>>

NextAPI ==
    \/ \E d \in Decls : ApiCollectItem(d[1], d[2])
    \/ \E it \in LangItems : ApiRequire(it)
    \/ \E id \in QueryIds : ApiToBuiltinKind(id)

SpecAPI == InitAPI /\ [][NextAPI]_vars

(* ------------------------------------------------------------------ *)
(* Vocabulary of the properties                                        *)
(* ------------------------------------------------------------------ *)
\* the symbolic names of the catalog
CatalogNames == { item_name(s) : s \in Slots }

\* the slot a catalog name belongs to
SlotNamed(n) == CHOOSE s \in Slots : item_name(s) = n

\* positions of the attributes `#[lang = "..."]` of an attribute list
Markers(attrs) ==
    { i \in 1..Len(attrs) : attrs[i].name = "lang" /\ attrs[i].value # None }

\* the value of the first marker attribute in list order
FirstMarker(attrs) ==
    attrs[CHOOSE i \in Markers(attrs) : \A j \in Markers(attrs) : i <= j].value[1]

\* an item without a marker, or whose marker names no catalog entry
Ignorable(item) ==
    \/ Markers(item.attrs) = {}
    \/ FirstMarker(item.attrs) \notin CatalogNames

\* the message of a duplicate conflict on slot s
DuplicateMsg(s) == "duplicate entry for '" \o item_name(s) \o "'"

\* how often msg occurs in the recorded errors es
Count(msg, es) == Cardinality({ i \in 1..Len(es) : es[i] = msg })

\* the (slot, identity) registrations the inputs prescribe for the step
\* being taken: one for a marked item, one per exported pair of a crate
StepCalls ==
    IF pos' = pos + 1
    THEN IF Ignorable(crate[pos']) THEN <<>>
         ELSE << <<SlotNamed(FirstMarker(crate[pos'].attrs)),
                   DefId(0, crate[pos'].id)>> >>
    ELSE IF done' # done
    THEN [k \in 1..Len(cstore[CHOOSE c \in done' \ done : TRUE]) |->
             << cstore[CHOOSE c \in done' \ done : TRUE][k][2],
                DefId(CHOOSE c \in done' \ done : TRUE,
                      cstore[CHOOSE c \in done' \ done : TRUE][k][1]) >>]
    ELSE <<>>

\* the calls made so far on slot s, in order
RECURSIVE CallsOn(_, _)
CallsOn(s, cs) ==
    IF cs = <<>> THEN <<>>
    ELSE IF cs[1][1] = s THEN <<cs[1][2]>> \o CallsOn(s, Tail(cs))
         ELSE CallsOn(s, Tail(cs))

(* ------------------------------------------------------------------ *)
(* C1                                                                  *)
(* ------------------------------------------------------------------ *)
\* C1 as stated: in the local and external passes, a registration of a
\* different identity on a filled slot records a duplicate conflict and
\* leaves the slot holding the identity written first.
C1_FirstIdentityKept ==
    [][\A k \in 1..Len(StepCalls) :
          (items[StepCalls[k][1]] # None
           /\ items[StepCalls[k][1]][1] # StepCalls[k][2])
          => /\ Count(DuplicateMsg(StepCalls[k][1]), errs')
                  = Count(DuplicateMsg(StepCalls[k][1]), errs) + 1
             /\ items'[StepCalls[k][1]] = items[StepCalls[k][1]]]_vars

\* C1 amended: in the local and external passes, a registration of a
\* different identity on a filled slot records a duplicate conflict and
\* overwrites the slot, which then holds the identity written last.
C1_ConflictOverwrites ==
    [][\A k \in 1..Len(StepCalls) :
          (items[StepCalls[k][1]] # None
           /\ items[StepCalls[k][1]][1] # StepCalls[k][2])
          => /\ Count(DuplicateMsg(StepCalls[k][1]), errs')
                  = Count(DuplicateMsg(StepCalls[k][1]), errs) + 1
             /\ items'[StepCalls[k][1]] = Some(StepCalls[k][2])]_vars

\* two items of the crate claimed "add": the conflict is recorded and the
\* slot holds the second item
C1_Witness ==
    /\ pc = "collecting"
    /\ pos = 2
    /\ done = {}
    /\ items[4] = Some(DefId(0, 2))
    /\ errs = <<"duplicate entry for 'add'">>

(* ------------------------------------------------------------------ *)
(* C2                                                                  *)
(* ------------------------------------------------------------------ *)
\* C2: when the calls on a slot are two calls with distinct identities, in
\* either order, exactly one duplicate conflict naming that slot is
\* recorded, and no conflict is recorded for a slot called at most once.
C2_OneConflictEitherOrder ==
    pc = "api" =>
        \A s \in Slots :
            /\ (Len(CallsOn(s, calls)) = 2
                /\ CallsOn(s, calls)[1] # CallsOn(s, calls)[2])
               => Count(DuplicateMsg(s), errs) = 1
            /\ Len(CallsOn(s, calls)) <= 1
               => Count(DuplicateMsg(s), errs) = 0

\* freeze registered as (1,1) and then as (0,1), the reverse of the order
\* of Decls, with a call on another slot in between
C2_Witness ==
    /\ pc = "api"
    /\ calls = << <<0, DefId(1, 1)>>, <<4, DefId(0, 3)>>, <<0, DefId(0, 1)>> >>
    /\ errs = <<"duplicate entry for 'freeze'">>

(* ------------------------------------------------------------------ *)
(* C3                                                                  *)
(* ------------------------------------------------------------------ *)
\* C3: the error check comes after both passes have run to completion,
\* whatever conflicts they recorded; the collection aborts exactly when a
\* conflict was recorded, and the table is returned only without conflict.
C3_AbortAfterBothPasses ==
    /\ pc \in {"aborted", "resolved"}
       => pos = Len(crate) /\ done = DOMAIN cstore
    /\ pc = "aborted" => errs # <<>>
    /\ pc = "resolved" => errs = <<>>
    /\ (pc = "collecting" /\ pos < Len(crate)) => ENABLED VisitItem
    /\ (pc = "collecting" /\ pos = Len(crate))
       => \A c \in DOMAIN cstore \ done : ENABLED ExternalCrate(c)
    /\ Collected => /\ ENABLED Abort <=> errs # <<>>
                    /\ ENABLED Return <=> errs = <<>>

\* the crate tags an item "malloc", a dependency exports (crate, 7) for
\* malloc: one conflict naming malloc, and the collection aborts
C3_Witness ==
    /\ pc = "aborted"
    /\ Len(crate) = 2
    /\ errs = <<"duplicate entry for 'malloc'">>
    /\ \E c \in CrateNums : items[26] = Some(DefId(c, 7))

(* ------------------------------------------------------------------ *)
(* C4                                                                  *)
(* ------------------------------------------------------------------ *)
\* C4: require(kind) returns the error naming the slot of kind (the name
\* the Name Index maps to it) exactly when the slot is empty, and Ok with
\* the stored identity when it is filled; require leaves the table as it is.
C4_Require ==
    /\ [](result # None /\ result[1].op = "require"
          => /\ items[AsUint(result[1].arg)] = None
                => result[1].val =
                     [ok |-> FALSE,
                      val |-> "requires '"
                              \o (CHOOSE n \in DOMAIN item_refs :
                                     item_refs[n] = AsUint(result[1].arg))
                              \o "' lang_item"]
             /\ items[AsUint(result[1].arg)] # None
                => result[1].val =
                     [ok |-> TRUE, val |-> items[AsUint(result[1].arg)][1]])
    /\ [][(result' # None /\ result'[1].op = "require") => items' = items]_vars

\* malloc is required from a table that holds other items
C4_Witness ==
    /\ result = Some([op |-> "require", arg |-> "MallocFnLangItem",
                      val |-> [ok |-> FALSE,
                               val |-> "requires 'malloc' lang_item"]])
    /\ items[4] = Some(DefId(1, 3))
    /\ items[0] = Some(DefId(0, 1))

(* ------------------------------------------------------------------ *)
(* C5                                                                  *)
(* ------------------------------------------------------------------ *)
\* C5: to_builtin_kind(id) is BoundFreeze when id is in the freeze slot,
\* BoundSend when in the send slot, BoundSized when in the sized slot, and
\* None for every other identity.
C5_ToBuiltinKind ==
    (result # None /\ result[1].op = "to_builtin_kind")
    => /\ items[item_refs["freeze"]] = Some(result[1].arg)
          => result[1].val = Some("BoundFreeze")
       /\ items[item_refs["send"]] = Some(result[1].arg)
          => result[1].val = Some("BoundSend")
       /\ items[item_refs["sized"]] = Some(result[1].arg)
          => result[1].val = Some("BoundSized")
       /\ (\A n \in {"freeze", "send", "sized"} :
              items[item_refs[n]] # Some(result[1].arg))
          => result[1].val = None

\* the identity held by the add slot is no bound, with the send slot filled
C5_Witness ==
    /\ result = Some([op |-> "to_builtin_kind", arg |-> DefId(0, 3),
                      val |-> None])
    /\ items[4] = Some(DefId(0, 3))
    /\ items[1] = Some(DefId(0, 2))

(* ------------------------------------------------------------------ *)
(* C6                                                                  *)
(* ------------------------------------------------------------------ *)
\* C6: a collect_item call with the identity its slot already holds
\* records no conflict and leaves the whole table unchanged.
C6_SamePairIdempotent ==
    [][(calls' # calls
        /\ items[calls'[Len(calls')][1]] = Some(calls'[Len(calls')][2]))
       => items' = items /\ errs' = errs]_vars

\* the same (slot, identity) pair called twice in a row
C6_Witness ==
    /\ calls = << <<4, DefId(0, 3)>>, <<4, DefId(0, 3)>> >>
    /\ items[4] = Some(DefId(0, 3))
    /\ errs = <<>>

(* ------------------------------------------------------------------ *)
(* C7                                                                  *)
(* ------------------------------------------------------------------ *)
\* C7: visiting an item without marker, or whose marker is no catalog name,
\* changes no slot and records no error; while only such items have been
\* visited the table is empty.
C7_UnmarkedIgnored ==
    /\ [][(pos' = pos + 1 /\ Ignorable(crate[pos']))
          => items' = items /\ errs' = errs]_vars
    /\ []((pc # "start" /\ done = {} /\ \A i \in 1..pos : Ignorable(crate[i]))
          => items = LanguageItems_new /\ errs = <<>>)

\* a crate of an item tagged "not_a_real_item" and an item without
\* attributes ends with the empty table returned
C7_Witness ==
    /\ pc = "resolved"
    /\ Len(crate) = 2
    /\ crate[1].attrs = <<NameValue("lang", "not_a_real_item")>>
    /\ crate[2].attrs = <<>>
    /\ \A c \in DOMAIN cstore : cstore[c] = <<>>
    /\ items = LanguageItems_new

(* ------------------------------------------------------------------ *)
(* C8                                                                  *)
(* ------------------------------------------------------------------ *)
\* C8: the Name Index maps the name of every slot 0..39 back to that slot,
\* the 40 names are pairwise distinct, no name maps outside 0..39, and the
\* enum has one variant per slot.
C8_CatalogRoundTrip ==
    pc # "start" =>
        /\ \A s \in Slots :
              item_name(s) \in DOMAIN item_refs /\ item_refs[item_name(s)] = s
        /\ Cardinality(CatalogNames) = NumSlots
        /\ \A n \in DOMAIN item_refs : item_refs[n] \in Slots
        /\ Cardinality(DOMAIN item_refs) = NumSlots
        /\ Len(LangItem) = NumSlots

\* the index the collector was constructed with
C8_Witness ==
    /\ pc = "collecting"
    /\ pos = 0
    /\ "event_loop_factory" \in DOMAIN item_refs
    /\ item_refs["event_loop_factory"] = 39
    /\ item_refs["freeze"] = 0

(* ------------------------------------------------------------------ *)
(* C9                                                                  *)
(* ------------------------------------------------------------------ *)
\* the dependencies export pairwise disjoint slot sets
DisjointTables ==
    \A c, d \in DOMAIN cstore :
        c # d => \A i \in 1..Len(cstore[c]) : \A j \in 1..Len(cstore[d]) :
                     cstore[c][i][2] # cstore[d][j][2]

\* C9: when the local pass registered nothing and the dependencies export
\* pairwise disjoint slot sets, then after any crates have been merged, in
\* any order, a slot is filled exactly when one of them exports it, it holds
\* (that crate's number, the exported node id), and no conflict is recorded.
C9_DisjointUnion ==
    (pc # "start" /\ pos = Len(crate) /\ DisjointTables
     /\ \A i \in 1..Len(crate) : Ignorable(crate[i]))
    => /\ errs = <<>>
       /\ \A s \in Slots :
             /\ items[s] # None
                <=> \E c \in done : \E k \in 1..Len(cstore[c]) :
                        cstore[c][k][2] = s
             /\ \A c \in done : \A k \in 1..Len(cstore[c]) :
                    cstore[c][k][2] = s
                    => items[s] = Some(DefId(c, cstore[c][k][1]))

\* crate 1 exports add, crate 2 exports malloc, both merged
C9_Witness ==
    /\ pc = "resolved"
    /\ cstore[1] = << <<1, 4>> >>
    /\ cstore[2] = << <<7, 26>> >>
    /\ done = {1, 2}
    /\ Len(crate) = 1
    /\ Ignorable(crate[1])
    /\ items[4] = Some(DefId(1, 1))
    /\ items[26] = Some(DefId(2, 7))

(* ------------------------------------------------------------------ *)
(* C10                                                                 *)
(* ------------------------------------------------------------------ *)
\* C10: extract returns the value of the first "lang" attribute in list
\* order; an item whose first "lang" attribute names no catalog entry
\* registers nothing, whatever follows, and an item whose first names a
\* catalog entry is registered under that slot and no other.
C10_FirstMarkerWins ==
    /\ [](\A i \in 1..Len(crate) :
             extract(crate[i].attrs) =
                 IF Markers(crate[i].attrs) = {} THEN None
                 ELSE Some(FirstMarker(crate[i].attrs)))
    /\ [][(pos' = pos + 1 /\ Markers(crate[pos'].attrs) # {})
          => IF FirstMarker(crate[pos'].attrs) \in CatalogNames
             THEN items' = [items EXCEPT
                               ![SlotNamed(FirstMarker(crate[pos'].attrs))] =
                                   Some(DefId(0, crate[pos'].id))]
             ELSE items' = items /\ errs' = errs]_vars

\* an unknown marker followed by "add", then "add" followed by "malloc":
\* only the second item is registered, under add
C10_Witness ==
    /\ pos = 2
    /\ done = {}
    /\ crate[1].attrs = <<NameValue("lang", "not_a_real_item"),
                          NameValue("lang", "add")>>
    /\ crate[2].attrs = <<NameValue("lang", "add"), NameValue("lang", "malloc")>>
    /\ items = [LanguageItems_new EXCEPT ![4] = Some(DefId(0, 2))]
    /\ errs = <<>>

====
